---------------------------- MODULE Spec2Model ----------------------------
(***************************************************************************)
(* Counter as a Service (src/src/main.rs): a Rocket application that keeps *)
(* a Mutex<HashMap<Uuid, Counter>> as managed state and serves it over     *)
(* five routes mounted at /counter, an index route and a 404 catcher.      *)
(*                                                                         *)
(* Every request is handled by one worker thread.  A handler is modelled   *)
(* statement by statement: routing, map.lock(), Uuid::parse_str(..), the   *)
(* map access, and the return that drops the MutexGuard and writes the     *)
(* response.  A panic unwinds the handler: no response is written, and a   *)
(* guard that is dropped while the thread panics poisons the mutex         *)
(* (std::sync::Mutex).                                                     *)
(*                                                                         *)
(* Modelling decisions that are not visible in the source text:            *)
(*  - Uuid::new_v4() draws 122 random bits.  A draw that equals a key      *)
(*    already stored has probability about 2^-122 per stored key and is    *)
(*    left out: new_v4 yields an identifier that is not a key of the map.  *)
(*  - `contents.value += 1` on u32::MAX panics when the build has overflow *)
(*    checks (debug profile) and wraps to 0 when it has not (release       *)
(*    profile); both outcomes are kept.                                    *)
(*  - TLC integers are 32-bit signed, so a u32 is kept as two 16-bit       *)
(*    halves <<hi, lo>> with exact carry and borrow.                       *)
(***************************************************************************)
EXTENDS Integers, Sequences, FiniteSets, TLC

(***************************************************************************)
(* Bounds of the model.                                                    *)
(***************************************************************************)
\* Number of worker threads that handle requests in parallel.
NumWorkers == 2
\* Size of the universe of UUID values that requests and new_v4 draw from.
NumUuids == 2
\* Requests the service takes in one run (caps the counters' growth).
MaxRequests == 3

(***************************************************************************)
(* Program constants.                                                      *)
(***************************************************************************)
\* value: u32 -- one 16-bit half of it ranges over 0 .. Half - 1.
Half == 65536

Workers == 1 .. NumWorkers
Uuid == 1 .. NumUuids
NoWorker == 0
NoUuid == 0

(***************************************************************************)
(* u32 arithmetic on <<hi, lo>>.                                           *)
(***************************************************************************)
U32(n) == <<n \div Half, n % Half>>
U32Zero == <<0, 0>>
U32Max == <<Half - 1, Half - 1>>

\* v + 1 below u32::MAX.
Succ(v) == IF v[2] < Half - 1 THEN <<v[1], v[2] + 1>> ELSE <<v[1] + 1, 0>>
\* v - 1 above 0.
Pred(v) == IF v[2] > 0 THEN <<v[1], v[2] - 1>> ELSE <<v[1] - 1, Half - 1>>
IsZero(v) == v = U32Zero

\* struct Counter { id: Uuid, value: u32 }
Counter(i, v) == [id |-> i, value |-> v]

(***************************************************************************)
(* Requests.  The <id> path segment is a string: the text of a UUID, or a  *)
(* string that is no UUID at all.                                          *)
(***************************************************************************)
NoSegment == <<"", NoUuid>>
Malformed == <<"xyz123", NoUuid>>
IdStrings == ({"hyphenated"} \X Uuid) \cup {Malformed}

Requests ==
    { r \in [ method : {"GET", "POST", "PUT"},
              mount  : {"/", "/counter", "/counters"},
              id     : IdStrings \cup {NoSegment},
              tail   : {"", "increment", "decrement"},
              media  : {"json", "absent", "other"} ] :
        /\ (r.mount = "/") => (r.id = NoSegment)
        /\ (r.id = NoSegment) => (r.tail = "") }

\* Uuid::parse_str: Ok(uuid) for the text of a UUID, Err otherwise.
parse_str(s) ==
    IF s[1] = "hyphenated" /\ s[2] \in Uuid
    THEN [ok |-> TRUE, uuid |-> s[2]]
    ELSE [ok |-> FALSE, uuid |-> NoUuid]

\* format = "json": a GET matches unless its Accept header names another
\* media type; a POST or PUT matches only with Content-Type JSON.
FormatJson(r) ==
    IF r.method = "GET" THEN r.media \in {"json", "absent"} ELSE r.media = "json"

StoreHandlers ==
    {"get_all_counters", "create_counter", "get_counter",
     "increment_counter", "decrement_counter"}
IdHandlers == {"get_counter", "increment_counter", "decrement_counter"}

\* Mutant of Route: the path is matched by its prefix, so /counters/.. is
\* taken for /counter/.. .
route_by_prefix(r) ==
    IF r.mount = "/" /\ r.method = "GET" THEN "index"
    ELSE IF r.mount = "/" \/ ~FormatJson(r) THEN "not_found"
    ELSE IF r.id = NoSegment /\ r.method = "GET" THEN "get_all_counters"
    ELSE IF r.id = NoSegment /\ r.method = "POST" THEN "create_counter"
    ELSE IF r.id # NoSegment /\ r.tail = "" /\ r.method = "GET" THEN "get_counter"
    ELSE IF r.id # NoSegment /\ r.tail = "increment" /\ r.method = "PUT"
         THEN "increment_counter"
    ELSE IF r.id # NoSegment /\ r.tail = "decrement" /\ r.method = "PUT"
         THEN "decrement_counter"
    ELSE "not_found"
\* The routes mounted in rocket(); "not_found" when none matches.
Route(r) ==
    IF r.mount = "/" /\ r.method = "GET" THEN "index"
    ELSE IF r.mount # "/counter" \/ ~FormatJson(r) THEN "not_found"
    ELSE IF r.id = NoSegment /\ r.method = "GET" THEN "get_all_counters"
    ELSE IF r.id = NoSegment /\ r.method = "POST" THEN "create_counter"
    ELSE IF r.id # NoSegment /\ r.tail = "" /\ r.method = "GET" THEN "get_counter"
    ELSE IF r.id # NoSegment /\ r.tail = "increment" /\ r.method = "PUT"
         THEN "increment_counter"
    ELSE IF r.id # NoSegment /\ r.tail = "decrement" /\ r.method = "PUT"
         THEN "decrement_counter"
    ELSE "not_found"

(***************************************************************************)
(* Responses.  outcome "panic": the handler unwound, nothing was written.  *)
(* A response is recorded together with the request it answers (handler,   *)
(* id, whether it was taken after a malformed one had been handled) and,   *)
(* for increment and decrement, the entry the handler found.               *)
(***************************************************************************)
Answer(h, s, outcome, status, json, cs, before, after) ==
    [handler |-> h, id |-> s, outcome |-> outcome, status |-> status,
     json |-> json, counters |-> cs, before |-> before, late |-> after]

NoResponse == Answer("none", NoSegment, "pending", 0, "", <<>>, <<>>, FALSE)

(***************************************************************************)
(* State.                                                                  *)
(***************************************************************************)
VARIABLES
    hashmap,        \* the HashMap<Uuid, Counter> inside the Mutex
    lock_holder,    \* the worker that holds the MutexGuard, or NoWorker
    poisoned,       \* the Mutex's poison flag
    pc,             \* where each worker is in its handler
    handler,        \* the route a worker's request matched
    id,             \* the <id> path segment of a worker's request
    parsed_uuid,    \* the handler's parsed Uuid
    entry,          \* hashmap.entry(parsed_uuid): <<>> vacant, <<c>> occupied
    late,           \* history: the request was taken after a malformed one
    response,       \* the outcome of the request that finished last
    requests,       \* history: requests taken so far
    created,        \* history: identifiers returned by create_counter
    createDone,     \* history: create calls completed
    incDone,        \* history: increment calls completed, per identifier
    decActed,       \* history: identifiers a decrement has written
    returned,       \* history: per identifier, the value in the response of
                    \* the last create, increment or decrement that returned
    malformedSeen   \* history: a request with a malformed <id> was handled

locals == <<pc, handler, id, parsed_uuid, entry, late>>
mutex == <<lock_holder, poisoned>>
history == <<created, createDone, incDone, decActed, returned, malformedSeen>>
vars == <<hashmap, mutex, locals, response, requests, history>>

\* .manage(Mutex::new(HashMap::<Uuid, Counter>::new()))
EmptyMap == [u \in {} |-> Counter(u, U32Zero)]

InitWorkers ==
    /\ pc = [w \in Workers |-> "idle"]
    /\ handler = [w \in Workers |-> "none"]
    /\ id = [w \in Workers |-> NoSegment]
    /\ parsed_uuid = [w \in Workers |-> NoUuid]
    /\ entry = [w \in Workers |-> <<>>]
    /\ late = [w \in Workers |-> FALSE]
    /\ response = NoResponse
    /\ requests = 0
    /\ created = {}
    /\ createDone = 0
    /\ incDone = [u \in Uuid |-> 0]
    /\ decActed = {}
    /\ returned = [u \in Uuid |-> <<>>]
    /\ malformedSeen = FALSE

Init ==
    /\ hashmap = EmptyMap
    /\ lock_holder = NoWorker
    /\ poisoned = FALSE
    /\ InitWorkers

\* Mutant of Insert: the map is rebuilt with the written entry alone.
insert_into_empty(m, k, c) == [u \in {k} |-> c]
\* HashMap::insert / the write through an Entry: the value stored under k.
Insert(m, k, c) == [u \in (DOMAIN m) \cup {k} |-> IF u = k THEN c ELSE m[u]]

\* Mutant of new_v4: an identifier that may already be a key of the map.
new_v4_any == Uuid
\* Uuid::new_v4(): the identifiers a draw can produce (see the header).
new_v4 == Uuid \ DOMAIN hashmap

\* Mutants of lock_available: the map is entered without waiting for the
\* guard; a lock attempt on a poisoned mutex blocks and returns no Err.
lock_never_blocks == TRUE
lock_blocks_when_poisoned == lock_holder = NoWorker /\ ~poisoned
\* Mutex::lock blocks while another thread holds the guard.
lock_available == lock_holder = NoWorker

\* The orders in which HashMap::iter may visit the keys.
Orderings(S) ==
    {s \in [1 .. Cardinality(S) -> S] : \A i, j \in DOMAIN s : s[i] = s[j] => i = j}

\* Requests under way that will add a key to the map.
Claiming(w) ==
    /\ pc[w] # "idle"
    /\ \/ handler[w] = "create_counter"
       \/ /\ handler[w] \in {"increment_counter", "decrement_counter"}
          /\ parse_str(id[w]).ok
          /\ parse_str(id[w]).uuid \notin DOMAIN hashmap

\* What routing keeps of a request: the handler it matched and its <id>.
Routed == {[handler |-> Route(r), id |-> r.id] : r \in Requests}

\* The requests the model lets in: at most MaxRequests of them, and the
\* universe of UUIDs must leave room for the keys the requests under way add.
Admitted(t) ==
    LET p == parse_str(t.id)
        adds == \/ t.handler = "create_counter"
                \/ /\ t.handler \in {"increment_counter", "decrement_counter"}
                   /\ p.ok
                   /\ p.uuid \notin DOMAIN hashmap
    IN  /\ requests < MaxRequests
        /\ adds =>
            Cardinality(DOMAIN hashmap) + Cardinality({w \in Workers : Claiming(w)})
                < NumUuids

\* The handler of worker w ends with answer `a`: its locals are gone.
Finish(w, outcome, status, json, cs) ==
    /\ response' = Answer(handler[w], id[w], outcome, status, json, cs, entry[w], late[w])
    /\ pc' = [pc EXCEPT ![w] = "idle"]
    /\ handler' = [handler EXCEPT ![w] = "none"]
    /\ id' = [id EXCEPT ![w] = NoSegment]
    /\ parsed_uuid' = [parsed_uuid EXCEPT ![w] = NoUuid]
    /\ entry' = [entry EXCEPT ![w] = <<>>]
    /\ late' = [late EXCEPT ![w] = FALSE]

\* A panic unwinds the handler: the connection is closed without a response.
Panic(w) == Finish(w, "panic", 0, "", <<>>)
\* Json(..) returned by the handler: 200.
Ok(w, json, cs) == Finish(w, "response", 200, json, cs)
\* None returned by the handler, or no route: the 404 catcher's body.
NotFound(w) == Finish(w, "response", 404, "status_error", <<>>)

(***************************************************************************)
(* Actions.                                                                *)
(***************************************************************************)
\* A worker takes a request that Rocket routes to one of the /counter handlers.
Dispatch(w) ==
    /\ pc[w] = "idle"
    /\ \E t \in Routed :
        /\ Admitted(t)
        /\ t.handler \in StoreHandlers
        /\ handler' = [handler EXCEPT ![w] = t.handler]
        /\ id' = [id EXCEPT ![w] = t.id]
    /\ late' = [late EXCEPT ![w] = malformedSeen]
    /\ pc' = [pc EXCEPT ![w] = "routed"]
    /\ requests' = requests + 1
    /\ UNCHANGED <<hashmap, mutex, parsed_uuid, entry, response, history>>

\* #[get("/")] fn index
index(w) ==
    /\ pc[w] = "idle"
    /\ \E t \in Routed :
        /\ Admitted(t)
        /\ t.handler = "index"
        /\ response' = Answer("index", t.id, "response", 200, "status_ok", <<>>, <<>>, malformedSeen)
    /\ requests' = requests + 1
    /\ UNCHANGED <<hashmap, mutex, locals, history>>

\* #[catch(404)] fn not_found, for a request that matched no route
not_found(w) ==
    /\ pc[w] = "idle"
    /\ \E t \in Routed :
        /\ Admitted(t)
        /\ t.handler = "not_found"
        /\ response' =
            Answer("not_found", t.id, "response", 404, "status_error", <<>>, <<>>,
                   malformedSeen)
    /\ requests' = requests + 1
    /\ UNCHANGED <<hashmap, mutex, locals, history>>

\* map.lock().unwrap() / map.lock().expect("map lock.")
Lock(w) ==
    /\ pc[w] = "routed"
    /\ lock_available
    /\ IF poisoned
       THEN \* Err(PoisonError): unwrap panics, the guard in the error is dropped
            /\ Panic(w)
            /\ UNCHANGED lock_holder
       ELSE /\ lock_holder' = w
            /\ pc' = [pc EXCEPT ![w] = "locked"]
            /\ UNCHANGED <<handler, id, parsed_uuid, entry, late, response>>
    /\ UNCHANGED <<hashmap, poisoned, requests, history>>

\* Uuid::parse_str(&id).expect("Invalid id"), with the guard held
Parse(w) ==
    /\ pc[w] = "locked"
    /\ handler[w] \in IdHandlers
    /\ LET p == parse_str(id[w]) IN
        IF p.ok
        THEN /\ parsed_uuid' = [parsed_uuid EXCEPT ![w] = p.uuid]
             /\ pc' = [pc EXCEPT ![w] = "parsed"]
             /\ UNCHANGED <<mutex, handler, id, entry, late, response, malformedSeen>>
        ELSE \* expect panics; the guard is dropped while panicking
             /\ poisoned' = TRUE
             /\ lock_holder' = NoWorker
             /\ Panic(w)
             /\ malformedSeen' = TRUE
    /\ UNCHANGED <<hashmap, requests, created, createDone, incDone, decActed, returned>>

\* Mutant of get_all_counters: the counters are moved out of the map
\* (drain in place of iter), which leaves it empty.
get_all_counters_drain(w) ==
    /\ pc[w] = "locked"
    /\ handler[w] = "get_all_counters"
    /\ \E s \in Orderings(DOMAIN hashmap) :
        Ok(w, "counters", [i \in DOMAIN s |-> hashmap[s[i]]])
    /\ hashmap' = EmptyMap
    /\ lock_holder' = NoWorker
    /\ UNCHANGED <<poisoned, requests, history>>
\* Json(hashmap.iter().map(|v| *v.1).collect()); the guard is dropped
get_all_counters(w) ==
    /\ pc[w] = "locked"
    /\ handler[w] = "get_all_counters"
    /\ \E s \in Orderings(DOMAIN hashmap) :
        Ok(w, "counters", [i \in DOMAIN s |-> hashmap[s[i]]])
    /\ lock_holder' = NoWorker
    /\ UNCHANGED <<hashmap, poisoned, requests, history>>

\* let counter = Counter { id, value: 0 };
new_counter(u) == Counter(u, U32Zero)

\* let id = Uuid::new_v4(); hashmap.insert(id, counter); Json(counter)
create_counter(w) ==
    /\ pc[w] = "locked"
    /\ handler[w] = "create_counter"
    /\ \E u \in new_v4 :
        LET counter == new_counter(u) IN
        /\ hashmap' = Insert(hashmap, u, counter)
        /\ Ok(w, "counter", <<counter>>)
        /\ created' = created \cup {u}
        /\ returned' = [returned EXCEPT ![u] = <<response'.counters[1].value>>]
    /\ createDone' = createDone + 1
    /\ lock_holder' = NoWorker
    /\ UNCHANGED <<poisoned, requests, incDone, decActed, malformedSeen>>

\* Mutants of hashmap_get: a default counter for a missing key; the stored
\* identifier with a default value for a present one.
get_or_default(m, u) == IF u \in DOMAIN m THEN <<m[u]>> ELSE <<Counter(u, U32Zero)>>
get_default_value(m, u) == IF u \in DOMAIN m THEN <<Counter(u, U32Zero)>> ELSE <<>>
\* hashmap.get(&parsed_uuid): <<>> for None, <<c>> for Some(c)
hashmap_get(m, u) == IF u \in DOMAIN m THEN <<m[u]>> ELSE <<>>

\* hashmap.get(&parsed_uuid).map(|contents| Json(*contents)); None is a 404
get_counter(w) ==
    /\ pc[w] = "parsed"
    /\ handler[w] = "get_counter"
    /\ LET found == hashmap_get(hashmap, parsed_uuid[w]) IN
        IF found # <<>> THEN Ok(w, "counter", found) ELSE NotFound(w)
    /\ lock_holder' = NoWorker
    /\ UNCHANGED <<hashmap, poisoned, requests, history>>

\* hashmap.entry(parsed_uuid)
Entry(w) ==
    /\ pc[w] = "parsed"
    /\ handler[w] \in {"increment_counter", "decrement_counter"}
    /\ entry' = [entry EXCEPT ![w] =
            IF parsed_uuid[w] \in DOMAIN hashmap
            THEN <<hashmap[parsed_uuid[w]]>>
            ELSE <<>>]
    /\ pc' = [pc EXCEPT ![w] = "entry"]
    /\ UNCHANGED <<hashmap, mutex, handler, id, parsed_uuid, late, response, requests,
                   history>>

\* Mutant of and_modify_increment: the sum is computed and not stored.
increment_not_stored(v) == {[panic |-> FALSE, value |-> v]}
\* contents.value += 1: what the build can produce.  On u32::MAX the addition
\* panics before the store (overflow checks on) or wraps to 0 (checks off).
and_modify_increment(v) ==
    IF v = U32Max
    THEN {[panic |-> TRUE, value |-> v], [panic |-> FALSE, value |-> U32Zero]}
    ELSE {[panic |-> FALSE, value |-> Succ(v)]}

\* Mutants of or_insert_increment: the missing counter starts at 0; the
\* counter is built with the nil identifier and not the requested one.
or_insert_zero(u) == Counter(u, U32Zero)
or_insert_nil(u) == Counter(NoUuid, U32(1))
\* .or_insert(Counter { id: parsed_uuid, value: 1 })
or_insert_increment(u) == Counter(u, U32(1))

\* Mutant of and_modify_decrement: the subtraction without its guard (wraps).
decrement_unguarded(v) == IF IsZero(v) THEN U32Max ELSE Pred(v)
\* if contents.value > 0 { contents.value -= 1 } else { () }
and_modify_decrement(v) == IF ~IsZero(v) THEN Pred(v) ELSE v

\* .or_insert(Counter { id: parsed_uuid, value: 0 })
or_insert_decrement(u) == Counter(u, U32Zero)

\* .and_modify(|contents| contents.value += 1).or_insert(..); Some(Json(*counter))
increment_counter(w) ==
    /\ pc[w] = "entry"
    /\ handler[w] = "increment_counter"
    /\ LET u == parsed_uuid[w] IN
        IF entry[w] = <<>>
        THEN /\ hashmap' = Insert(hashmap, u, or_insert_increment(u))
             /\ Ok(w, "counter", <<hashmap'[u]>>)
             /\ incDone' = [incDone EXCEPT ![u] = @ + 1]
             /\ returned' = [returned EXCEPT ![u] = <<response'.counters[1].value>>]
             /\ UNCHANGED poisoned
        ELSE \E r \in and_modify_increment(entry[w][1].value) :
             IF r.panic
             THEN \* the guard is dropped while panicking
                  /\ poisoned' = TRUE
                  /\ Panic(w)
                  /\ UNCHANGED <<hashmap, incDone, returned>>
             ELSE /\ hashmap' = Insert(hashmap, u, [entry[w][1] EXCEPT !.value = r.value])
                  /\ Ok(w, "counter", <<hashmap'[u]>>)
                  /\ incDone' = [incDone EXCEPT ![u] = @ + 1]
                  /\ returned' = [returned EXCEPT ![u] = <<response'.counters[1].value>>]
                  /\ UNCHANGED poisoned
    /\ lock_holder' = NoWorker
    /\ UNCHANGED <<requests, created, createDone, decActed, malformedSeen>>

\* .and_modify(|contents| if contents.value > 0 {..}).or_insert(..); Some(Json(*counter))
decrement_counter(w) ==
    /\ pc[w] = "entry"
    /\ handler[w] = "decrement_counter"
    /\ LET u == parsed_uuid[w] IN
        /\ hashmap' = Insert(hashmap, u,
                IF entry[w] = <<>>
                THEN or_insert_decrement(u)
                ELSE [entry[w][1] EXCEPT !.value = and_modify_decrement(entry[w][1].value)])
        /\ Ok(w, "counter", <<hashmap'[u]>>)
        /\ decActed' = decActed \cup {u}
        /\ returned' = [returned EXCEPT ![u] = <<response'.counters[1].value>>]
    /\ lock_holder' = NoWorker
    /\ UNCHANGED <<poisoned, requests, created, createDone, incDone, malformedSeen>>

Next ==
    \E w \in Workers :
        \/ Dispatch(w)
        \/ index(w)
        \/ not_found(w)
        \/ Lock(w)
        \/ Parse(w)
        \/ get_all_counters(w)
        \/ create_counter(w)
        \/ get_counter(w)
        \/ Entry(w)
        \/ increment_counter(w)
        \/ decrement_counter(w)

Spec == Init /\ [][Next]_vars

\* The steps of worker w's handler once its request is routed.
HandlerStep(w) ==
    \/ Lock(w)
    \/ Parse(w)
    \/ get_all_counters(w)
    \/ create_counter(w)
    \/ get_counter(w)
    \/ Entry(w)
    \/ increment_counter(w)
    \/ decrement_counter(w)

\* Every worker thread that can take a step of its handler is scheduled in
\* the end.  Nothing obliges a client to send a request, so Dispatch, index
\* and not_found carry no fairness.
Fairness == \A w \in Workers : WF_vars(HandlerStep(w))

FairSpec == Init /\ [][Next]_vars /\ Fairness

\* The service after 2^32 - 2 completed increments of one identifier: the
\* counter is one below u32::MAX.  The history variables count from here on.
InitNearMax ==
    /\ hashmap = [u \in {1} |-> Counter(u, Pred(U32Max))]
    /\ lock_holder = NoWorker
    /\ poisoned = FALSE
    /\ InitWorkers

SpecNearMax == InitNearMax /\ [][Next]_vars

TypeOK ==
    /\ DOMAIN hashmap \subseteq Uuid
    /\ \A u \in DOMAIN hashmap :
        /\ hashmap[u].id \in Uuid
        /\ hashmap[u].value[1] \in 0 .. (Half - 1)
        /\ hashmap[u].value[2] \in 0 .. (Half - 1)
    /\ lock_holder \in Workers \cup {NoWorker}
    /\ poisoned \in BOOLEAN
    /\ requests \in 0 .. MaxRequests
    /\ response.outcome \in {"pending", "response", "panic"}
    /\ \A w \in Workers :
        /\ pc[w] \in {"idle", "routed", "locked", "parsed", "entry"}
        /\ handler[w] \in StoreHandlers \cup {"none"}
        /\ parsed_uuid[w] \in Uuid \cup {NoUuid}
    /\ \A u \in Uuid : Len(returned[u]) \in {0, 1}

(***************************************************************************)
(* Properties.                                                             *)
(***************************************************************************)
\* The value stored under u; a missing counter counts as 0 (an upsert starts
\* it at 0 + 1).
StoredValue(u) == IF u \in DOMAIN hashmap THEN hashmap[u].value ELSE U32Zero

\* Worker w takes the step that ends handler h: its map access and return.
Acts(w, h, at) == pc[w] = at /\ handler[w] = h /\ pc'[w] = "idle"

WellFormed(a) == a.handler \in IdHandlers => parse_str(a.id).ok

\* C1: concurrent increments of one identifier lose no update: an identifier
\* that no decrement has written holds its initial value (0) plus the number
\* of increment calls completed on it, in every interleaving.
C1_NoLostUpdate ==
    \A u \in Uuid \ decActed : StoredValue(u) = U32(incDone[u])

\* Two increments of one identifier overlap: one holds the guard and has read
\* the entry an earlier increment left, the other waits for the guard.
C1_Witness ==
    \E a, b \in Workers : \E u \in Uuid \ decActed :
        /\ a # b
        /\ pc[a] = "entry" /\ handler[a] = "increment_counter" /\ parsed_uuid[a] = u
        /\ pc[b] = "routed" /\ handler[b] = "increment_counter"
        /\ parse_str(id[b]).uuid = u
        /\ incDone[u] = 1
        /\ entry[a] = <<Counter(u, U32(1))>>

\* C2: a get, increment or decrement request with a malformed identifier is
\* answered with status 400 or 404; its handler never panics.
C2_MalformedIdAnswered ==
    (response.handler \in IdHandlers /\ ~parse_str(response.id).ok)
        => (response.outcome = "response" /\ response.status \in {400, 404})

\* C3: once a request with a malformed identifier has been handled, every
\* well-formed create, list, get, increment or decrement request taken after
\* it still acquires the store and returns its normal result.
C3_ServiceKeepsWorking ==
    (response.late /\ response.handler \in StoreHandlers /\ WellFormed(response))
        => response.outcome = "response"

\* C4: a decrement of an existing counter stores and returns 0 when the
\* counter holds 0 and v - 1 when it holds v > 0, with status 200; no value
\* it stores is below zero.
C4_DecrementFloor ==
    [][\A w \in Workers :
        (Acts(w, "decrement_counter", "entry") /\ parsed_uuid[w] \in DOMAIN hashmap) =>
            LET u == parsed_uuid[w]
                v == hashmap[u].value
                after == IF v = U32Zero THEN U32Zero ELSE Pred(v)
            IN  /\ hashmap'[u] = Counter(u, after)
                /\ after[1] \in 0 .. (Half - 1) /\ after[2] \in 0 .. (Half - 1)
                /\ response'.outcome = "response" /\ response'.status = 200
                /\ response'.counters = <<Counter(u, after)>>]_vars

\* A counter that already held 0 was decremented and 0 was returned.
C4_Witness ==
    \E u \in Uuid :
        /\ response.handler = "decrement_counter"
        /\ response.before = <<Counter(u, U32Zero)>>
        /\ response.counters = <<Counter(u, U32Zero)>>
        /\ hashmap[u].value = U32Zero

\* C5: on a counter made by create and written by no decrement, the k-th
\* completed increment stores k and its response carries k.
C5_KthIncrement ==
    [][\A w \in Workers :
        (Acts(w, "increment_counter", "entry") /\ parsed_uuid[w] \in created \ decActed) =>
            LET u == parsed_uuid[w]
                k == incDone[u] + 1
            IN  /\ incDone'[u] = k
                /\ hashmap'[u] = Counter(u, U32(k))
                /\ response'.outcome = "response" /\ response'.status = 200
                /\ response'.counters = <<Counter(u, U32(k))>>]_vars

\* The second increment of a created counter has returned 2.
C5_Witness ==
    \E u \in created \ decActed :
        /\ response.handler = "increment_counter"
        /\ response.counters = <<Counter(u, U32(2))>>
        /\ incDone[u] = 2

\* C6: every store operation on a well-formed identifier returns a result
\* and never aborts, including an increment of a counter that holds u32::MAX
\* (stated for the runs in which every identifier was well-formed).
C6_StoreOperationsInfallible ==
    (~malformedSeen /\ response.handler \in StoreHandlers /\ WellFormed(response))
        => response.outcome = "response"

NoUpsert == decActed = {} /\ \A u \in Uuid : incDone[u] = 0

\* C7: from an empty store, with no increment or decrement so far, a list
\* after N completed creates returns exactly N counters, each with value 0,
\* with pairwise distinct identifiers; and a create adds one entry and leaves
\* every stored counter as it was.
C7_CreateThenList ==
    [][\A w \in Workers :
        /\ (Acts(w, "get_all_counters", "locked") /\ NoUpsert) =>
            LET cs == response'.counters IN
            /\ response'.outcome = "response" /\ response'.status = 200
            /\ Len(cs) = createDone
            /\ \A i \in DOMAIN cs : cs[i].value = U32Zero
            /\ \A i, j \in DOMAIN cs : cs[i].id = cs[j].id => i = j
        /\ Acts(w, "create_counter", "locked") =>
            /\ \A u \in DOMAIN hashmap : u \in DOMAIN hashmap' /\ hashmap'[u] = hashmap[u]
            /\ Cardinality(DOMAIN hashmap') = Cardinality(DOMAIN hashmap) + 1]_vars

\* Two creates, then a list that returned two counters.
C7_Witness ==
    /\ NoUpsert
    /\ createDone = 2
    /\ response.handler = "get_all_counters"
    /\ Len(response.counters) = 2

\* C8: an increment of a well-formed identifier that is not stored inserts
\* and returns the counter with that identifier and value 1; a decrement
\* inserts and returns it with value 0; neither answers 404.
C8_UpsertOnMissing ==
    [][/\ \A w \in Workers :
            LET u == parsed_uuid[w] IN
            /\ (Acts(w, "increment_counter", "entry") /\ u \notin DOMAIN hashmap) =>
                /\ hashmap'[u] = Counter(u, U32(1))
                /\ response'.outcome = "response" /\ response'.status = 200
                /\ response'.counters = <<Counter(u, U32(1))>>
            /\ (Acts(w, "decrement_counter", "entry") /\ u \notin DOMAIN hashmap) =>
                /\ hashmap'[u] = Counter(u, U32Zero)
                /\ response'.outcome = "response" /\ response'.status = 200
                /\ response'.counters = <<Counter(u, U32Zero)>>
       /\ response'.handler \in {"increment_counter", "decrement_counter"} =>
            response'.status # 404]_vars

\* An increment found no entry and returned the counter it inserted.
C8_Witness ==
    \E u \in Uuid :
        /\ response.handler = "increment_counter"
        /\ response.id = <<"hyphenated", u>>
        /\ response.before = <<>>
        /\ response.counters = <<Counter(u, U32(1))>>
        /\ u \in DOMAIN hashmap

\* C9: a get of a well-formed identifier that is not stored answers 404, and
\* no step of a get handler changes the map.
C9_GetMissing ==
    [][\A w \in Workers :
        /\ (Acts(w, "get_counter", "parsed") /\ parsed_uuid[w] \notin DOMAIN hashmap) =>
            /\ response'.outcome = "response" /\ response'.status = 404
            /\ response'.counters = <<>>
        /\ (handler[w] = "get_counter" /\ pc'[w] # pc[w]) => hashmap' = hashmap]_vars

\* A get of an identifier that is not stored was answered 404.
C9_Witness ==
    /\ response.handler = "get_counter"
    /\ parse_str(response.id).ok
    /\ parse_str(response.id).uuid \notin DOMAIN hashmap
    /\ response.status = 404

\* C10: a get of a stored identifier answers 200 with the identifier and the
\* value stored; for a counter that create made and nothing wrote since, the
\* value is 0.
C10_GetPresent ==
    [][\A w \in Workers :
        (Acts(w, "get_counter", "parsed") /\ parsed_uuid[w] \in DOMAIN hashmap) =>
            LET u == parsed_uuid[w] IN
            /\ response'.outcome = "response" /\ response'.status = 200
            /\ response'.counters = <<Counter(u, hashmap[u].value)>>
            /\ (u \in created \ decActed /\ incDone[u] = 0) =>
                response'.counters = <<Counter(u, U32Zero)>>]_vars

\* A get of a counter that an increment had raised to 1 returned 1.
C10_Witness ==
    \E u \in Uuid :
        /\ response.handler = "get_counter"
        /\ response.status = 200
        /\ response.counters = <<Counter(u, U32(1))>>
        /\ incDone[u] = 1

\* Worker w is between taking the guard and dropping it.
InStore(w) == pc[w] \in {"locked", "parsed", "entry"}

\* C11: at most one handler is inside the store at any time; a handler is
\* inside exactly while it holds the guard (taken before its first map access,
\* dropped by the step that returns); and what an increment or a decrement
\* read through its entry is still what the map holds when it writes.
C11_MutualExclusion ==
    /\ \A a, b \in Workers : (InStore(a) /\ InStore(b)) => a = b
    /\ \A w \in Workers : InStore(w) <=> lock_holder = w
    /\ \A w \in Workers :
        pc[w] = "entry" =>
            entry[w] = IF parsed_uuid[w] \in DOMAIN hashmap
                       THEN <<hashmap[parsed_uuid[w]]>>
                       ELSE <<>>

\* A decrement holds the guard with its entry read while a create and nothing
\* else waits for the guard.
C11_Witness ==
    \E a, b \in Workers :
        /\ a # b
        /\ pc[a] = "entry" /\ handler[a] = "decrement_counter" /\ lock_holder = a
        /\ pc[b] = "routed" /\ handler[b] = "create_counter"

\* C12: in every reachable state each key of the map equals the id field of
\* the counter stored under it, and every stored value is a non-negative
\* integer (a u32: both of its halves are in range).
C12_KeyIsIdValueNonNegative ==
    \A u \in DOMAIN hashmap :
        /\ hashmap[u].id = u
        /\ hashmap[u].value[1] \in 0 .. (Half - 1)
        /\ hashmap[u].value[2] \in 0 .. (Half - 1)

\* The map holds a counter that an increment inserted and one that a
\* decrement inserted and floored at 0.
C12_Witness ==
    \E u, v \in DOMAIN hashmap :
        /\ u # v
        /\ u \notin created /\ incDone[u] = 1 /\ u \notin decActed
        /\ v \notin created /\ v \in decActed /\ hashmap[v].value = U32Zero

\* C13: counters are never removed and identifiers never change: a key of
\* the map is a key of the map after every step, with the same id field.
C13_NeverRemoved ==
    [][\A u \in DOMAIN hashmap :
        /\ u \in DOMAIN hashmap'
        /\ hashmap'[u].id = hashmap[u].id]_vars

\* A created counter is still stored, under its identifier, after a later
\* create and a later decrement of it have written the map.
C13_Witness ==
    \E u, v \in created :
        /\ u # v
        /\ u \in decActed
        /\ response.handler = "decrement_counter"
        /\ hashmap[u].id = u /\ hashmap[v].id = v

\* C14: under fair scheduling of the workers every request that a handler
\* has started on completes: the handler obtains the guard or an immediate
\* error, finishes, and the guard it took is released.  ([]<>P is the
\* leads-to ~P ~> P: whenever the handler is under way it ends later on.)
C14_EveryRequestCompletes ==
    \A w \in Workers :
        /\ []<>(pc[w] = "idle")
        /\ []<>(lock_holder # w)

\* A request waits for the guard that another handler holds.
C14_Witness ==
    \E a, b \in Workers :
        /\ pc[a] = "routed"
        /\ lock_holder = b /\ pc[b] = "parsed"

\* C15: a value that a create, increment or decrement has returned for an
\* identifier, and that no later mutation of that identifier has replaced, is
\* what every operation that acts afterwards observes: a get returns exactly
\* it, a list contains the counter with exactly it, and the entry that an
\* increment or a decrement reads holds it.
C15_WritesVisible ==
    [][\A w \in Workers :
        LET u == parsed_uuid[w] IN
        /\ (Acts(w, "get_counter", "parsed") /\ returned[u] # <<>>) =>
            /\ response'.status = 200
            /\ response'.counters = <<Counter(u, returned[u][1])>>
        /\ Acts(w, "get_all_counters", "locked") =>
            \A k \in Uuid :
                returned[k] # <<>> =>
                    \E i \in DOMAIN response'.counters :
                        response'.counters[i] = Counter(k, returned[k][1])
        /\ (pc[w] = "parsed" /\ pc'[w] = "entry" /\ returned[u] # <<>>) =>
            entry'[w] = <<Counter(u, returned[u][1])>>]_vars

\* An increment returned 1, a decrement of the same identifier then returned
\* 0, and the get that followed returned 0.
C15_Witness ==
    \E u \in decActed :
        /\ incDone[u] = 1
        /\ returned[u] = <<U32Zero>>
        /\ response.handler = "get_counter"
        /\ response.counters = <<Counter(u, U32Zero)>>

\* Requests whose path lies under no mounted route, or whose method has no
\* route at its path; GET /counters/xyz123 is one of them.
Unrouted ==
    {r \in Requests :
        \/ r.mount = "/counters"
        \/ r.mount = "/" /\ r.method # "GET"
        \/ r.mount = "/counter" /\ r.id = NoSegment /\ r.method = "PUT"
        \/ r.mount = "/counter" /\ r.id # NoSegment /\ r.method = "POST"}

UnroutedToCatcher == \A r \in Unrouted : Route(r) = "not_found"

C17_ReadsLeaveStore ==
    [][/\ \A w \in Workers :
            (handler[w] \in {"get_counter", "get_all_counters"} /\ pc'[w] # pc[w]) =>
                /\ DOMAIN hashmap' = DOMAIN hashmap
                /\ \A u \in DOMAIN hashmap : hashmap'[u] = hashmap[u]
       /\ (requests' = requests + 1 /\ pc' = pc /\ response'.handler = "index") =>
            hashmap' = hashmap]_vars

\* A list returned the one stored counter, which an increment had raised to
\* 1, and the map still holds it.
C17_Witness ==
    \E u \in Uuid :
        /\ response.handler = "get_all_counters"
        /\ response.counters = <<Counter(u, U32(1))>>
        /\ DOMAIN hashmap = {u}
        /\ hashmap[u] = Counter(u, U32(1))

\* C18: a mutating operation touches exactly one entry.  An increment or a
\* decrement of an identifier leaves every counter stored under another
\* identifier as it was and adds no key but its own; a create adds exactly
\* one key, which was not stored, and leaves every stored counter as it was.
C18_OneEntryTouched ==
    [][\A w \in Workers :
        /\ (pc[w] = "entry" /\ pc'[w] = "idle") =>
            LET u == parsed_uuid[w] IN
            /\ DOMAIN hashmap' \subseteq DOMAIN hashmap \cup {u}
            /\ \A k \in DOMAIN hashmap \ {u} :
                k \in DOMAIN hashmap' /\ hashmap'[k] = hashmap[k]
        /\ Acts(w, "create_counter", "locked") =>
            /\ \E u \in Uuid \ DOMAIN hashmap :
                DOMAIN hashmap' = DOMAIN hashmap \cup {u}
            /\ \A k \in DOMAIN hashmap : hashmap'[k] = hashmap[k]]_vars

\* An increment raised one of two stored counters to 2 and the other one
\* still holds the 0 it was created with.
C18_Witness ==
    \E u, k \in DOMAIN hashmap :
        /\ u # k
        /\ response.handler = "increment_counter"
        /\ response.before = <<Counter(u, U32(1))>>
        /\ hashmap[u] = Counter(u, U32(2))
        /\ k \in created /\ hashmap[k] = Counter(k, U32Zero)

\* C19: a single step changes the value of a stored counter by at most one:
\* the value stays, rises by exactly 1 or falls by exactly 1; it never jumps
\* and never wraps around.
C19_ChangeAtMostOne ==
    [][\A u \in DOMAIN hashmap :
        LET v == hashmap[u].value
            after == hashmap'[u].value
        IN  \/ after = v
            \/ v # U32Max /\ after = Succ(v)
            \/ v # U32Zero /\ after = Pred(v)]_vars

\* C20: under every interleaving, the counter in the response of a create,
\* increment or decrement equals the entry the map holds under that identifier
\* in the state the handler leaves when it drops the guard: the returned id is
\* the requested (for create: the generated, until then unused) identifier
\* and the returned value is the stored value.
C20_ReturnedIsStored ==
    [][\A w \in Workers :
        /\ (pc[w] = "entry" /\ pc'[w] = "idle" /\ response'.outcome = "response") =>
            LET u == parse_str(id[w]).uuid IN
            /\ lock_holder = w /\ lock_holder' = NoWorker
            /\ u \in DOMAIN hashmap'
            /\ response'.counters = <<hashmap'[u]>>
            /\ response'.counters[1].id = u
        /\ Acts(w, "create_counter", "locked") =>
            /\ lock_holder = w /\ lock_holder' = NoWorker
            /\ \E u \in DOMAIN hashmap' \ DOMAIN hashmap :
                /\ response'.counters = <<hashmap'[u]>>
                /\ response'.counters[1].id = u]_vars

\* A decrement returned the counter it lowered from 1 to 0, which is the
\* stored entry, while another request was under way.
C20_Witness ==
    \E u \in DOMAIN hashmap : \E b \in Workers :
        /\ response.handler = "decrement_counter"
        /\ response.before = <<Counter(u, U32(1))>>
        /\ response.counters = <<hashmap[u]>>
        /\ response.counters[1] = Counter(u, U32Zero)
        /\ pc[b] = "routed"

=============================================================================
